---- MODULE Spec2Model ----
(***************************************************************************)
(* NodesConfigurationManager (NCM): the OperationMode bitset, the          *)
(* staged -> pending -> local version pipeline, the proposer's             *)
(* compare-and-swap against the NodesConfigurationStore, the fan-out to    *)
(* the workers and the shutdown signal.                                    *)
(*                                                                         *)
(* A NodesConfiguration is modelled by its version (its payload is opaque  *)
(* to the manager); NULL is the null shared_ptr.  Requests posted to the   *)
(* NCM thread are kept in a bag and may execute in any order               *)
(* (postWithRetrying may re-post).                                         *)
(***************************************************************************)
EXTENDS Integers, Sequences, FiniteSets, Bags, TLC

\* ---------------------------------------------------------------- bounds
MaxVersion == 3
NumWorkers == 2
MaxCalls == 1
MaxQueue == 1
MaxReads == 1
MaxBatch == 2
MaxInitVersion == 1
MaxProposals == 2

\* ------------------------------------------------------------- constants
NULL == -1
EMPTY_VERSION == 0

Versions == 0..MaxVersion
Workers == 1..NumWorkers
CallIds == 1..(IF MaxProposals > MaxCalls THEN MaxProposals ELSE MaxCalls)

\* ---------------------------------------------------------- OperationMode
kIsProposer == {"Proposer"}
kIsCoordinator == {"Coordinator"}
kIsClient == {"Client"}
kIsTooling == {"Tooling"}
kIsStorageMember == {"StorageMember"}
kIsSequencer == {"Sequencer"}

AllFlags ==
  kIsProposer \cup kIsCoordinator \cup kIsClient \cup kIsTooling
    \cup kIsStorageMember \cup kIsSequencer

NodeRoles == {"SEQUENCER", "STORAGE"}

\* mode_ = flags instead of mode_ |= flags
setFlags_assign(mode, flags) == flags

setFlags(mode, flags) == mode \cup flags

hasFlags(mode, flags) == (mode \cap flags) # {}

onlyHasFlags(mode, flags) == mode = flags

isClient(mode) == hasFlags(mode, kIsClient)

isClientOnly(mode) == onlyHasFlags(mode, kIsClient)

isTooling(mode) == hasFlags(mode, kIsTooling)

isStorageMember(mode) == hasFlags(mode, kIsStorageMember)

isSequencer(mode) == hasFlags(mode, kIsSequencer)

isProposer(mode) == hasFlags(mode, kIsProposer)

isCoordinator(mode) == hasFlags(mode, kIsCoordinator)

\* the second test forgets the sequencer role
isValid_noSequencer(mode) ==
  IF isClient(mode) /\ isCoordinator(mode) THEN FALSE
  ELSE IF ~isClient(mode) /\ ~isTooling(mode) /\ ~isStorageMember(mode)
       THEN FALSE
  ELSE TRUE

isValid(mode) ==
  IF isClient(mode) /\ isCoordinator(mode) THEN FALSE
  ELSE IF ~isClient(mode) /\ ~isTooling(mode) /\ ~isStorageMember(mode)
          /\ ~isSequencer(mode)
       THEN FALSE
  ELSE TRUE

forClient == setFlags({}, kIsClient)

forTooling == setFlags({}, kIsTooling \cup kIsProposer)

forNodeRoles(roles) ==
  LET m0 == {}
      m1 == IF "SEQUENCER" \in roles THEN setFlags(m0, kIsSequencer) ELSE m0
      m2 == IF "STORAGE" \in roles THEN setFlags(m1, kIsStorageMember) ELSE m1
  IN m2

upgradeToProposer(mode) == setFlags(mode, kIsProposer)


\* ------------------------------------------------------------------ state
VARIABLES
  mode_,                 \* OperationMode of the manager
  shutdown_signaled_,    \* atomic<bool>
  staged_nodes_config_,  \* version, or NULL
  pending_nodes_config_, \* version, or NULL
  local_nodes_config_,   \* version, or NULL (the UpdateableSharedPtr)
  initialized_,          \* latch, posted by onProcessingFinished
  shutdown_completed_,   \* latch, posted by the ShutdownRequest
  build,                 \* "any", or "release" once a failed assertion was survived
  crashed,               \* the process aborted on a failed assertion
  init_called,           \* init() was called
  cold_init,             \* the config initOnNCM gave to an empty pipeline, or NULL
  heartbeat_timer,       \* scheduleHeartBeat() armed the timer
  ncm_requests,          \* bag of requests posted to the NCM thread
  worker_queue,          \* per worker: the fan-out tasks posted to it
  futures,               \* fan-outs in flight: [nc, waiting]
  store_version,         \* version of the config the store holds (EMPTY_VERSION: none)
  store_ops,             \* updateConfig calls the store has not answered
  store_reads,           \* bag of reads (consistent?) the store has not answered
  next_call,             \* id of the next update()/overwrite() call
  cb_count,              \* per call id: how often its callback ran
  last_cb,               \* the callback this step ran, if any: call id, status, nc,
                         \* and the store's answer it was run for
  worker_config,         \* per worker: the config its hook last ran for, or NULL
  fanout_count,          \* per version: fan-outs started
  publish_count,         \* per version: times moved into local
  delivered,             \* versions a well-formed blob of which onNewConfig(std::string)
                         \* was given while, or so that, the version was staged, pending or local
  last_call,             \* the call a caller made in this step: "update", "overwrite", or "none"
  last_delivery,         \* the blob this step gave to onNewConfig(std::string), if any,
                         \* and whether its version was then staged, pending or local
  arrived,               \* versions above pending passed to onNewConfig while it was pending
  skipped,               \* versions that arrived and lost to a higher one
  mismatch_seen,         \* highest stored_version answered with VERSION_MISMATCH and its blob
  last_update,           \* the batch onUpdateRequest ran on in this step, if any, and
                         \* whether serialize() gave a blob
  last_extract,          \* how many batches tracker_.extractNCUpdate() gave in this step
  last_publish,          \* the config onProcessingFinished moved into local in this step, or NULL
  tracker_               \* ShardStateTracker: the config it was last given, or NULL

vars ==
  << mode_, shutdown_signaled_, staged_nodes_config_, pending_nodes_config_,
     local_nodes_config_, initialized_, shutdown_completed_, build, crashed,
     init_called, cold_init, heartbeat_timer, ncm_requests, worker_queue,
     futures, store_version, store_ops, store_reads, next_call,
     cb_count, last_cb, last_call, last_delivery, worker_config, fanout_count,
     publish_count, delivered,
     arrived, skipped, mismatch_seen, last_update, last_extract,
     last_publish, tracker_ >>

\* ------------------------------------------------------------------ codec
NoBlob == [version |-> NULL, form |-> "none"]

BlobForms == {"ok", "bad_header", "bad_body"}

\* serialize(): an empty string signals failure
serialize(nc, ok) == IF ok THEN [version |-> nc, form |-> "ok"] ELSE NoBlob

\* extractConfigVersion(): the header alone
extractConfigVersion(blob) ==
  IF blob.form \in {"ok", "bad_body"} THEN blob.version ELSE NULL

\* deserialize(): the whole blob
deserialize(blob) == IF blob.form = "ok" THEN blob.version ELSE NULL

\* -------------------------------------------------------------- requests
Req(type, nc, id, blob) == [type |-> type, nc |-> nc, id |-> id, blob |-> blob]

InitRequest(nc) == Req("Init", nc, 0, NoBlob)

NewConfigRequest(nc) == Req("NewConfig", nc, 0, NoBlob)

NewConfigFromStore(blob) == Req("NewConfigStr", NULL, 0, blob)

\* kind: "update" from a caller, "advance" from advanceIntermediaryShardStates
UpdateRequest(id, kind) == Req(kind, NULL, id, NoBlob)

ProcessingFinishedRequest(nc) == Req("ProcessingFinished", nc, 0, NoBlob)

ShutdownRequest == Req("Shutdown", NULL, 0, NoBlob)

Post(bag, r) == bag (+) SetToBag({r})

Take(bag, r) == bag (-) SetToBag({r})

\* the requests waiting for the NCM thread that the environment can pile up:
\* all but the ShutdownRequest and the ProcessingFinishedRequest, of which
\* the code posts one per shutdown() and one per fan-out
QueueLen(bag) ==
  BagCardinality(bag) - CopiesIn(ShutdownRequest, bag)
    - BagCardinality(
        [r \in {q \in BagToSet(bag) : q.type = "ProcessingFinished"}
           |-> bag[r]])

\* ---------------------------------------------------------------- helpers
Max(S) == CHOOSE x \in S : \A y \in S : y <= x

\* the anonymous max() over two shared_ptrs
max(lhs, rhs) ==
  IF lhs = NULL THEN rhs
  ELSE IF rhs = NULL THEN lhs
  ELSE IF lhs > rhs THEN lhs ELSE rhs

getLatestKnownConfig(loc, pnd, stg) ==
  LET c == max(max(loc, pnd), stg)
  IN IF c = NULL THEN EMPTY_VERSION ELSE c

\* a version equal to local's does not count as processed
hasProcessedVersion_strict(loc, version) == loc # NULL /\ loc > version

hasProcessedVersion(loc, version) == loc # NULL /\ loc >= version

\* pending only counts when strictly higher
isProcessingEqualOrHigherVersion_higher(pnd, version) ==
  pnd # NULL /\ pnd > version

isProcessingEqualOrHigherVersion(pnd, version) == pnd # NULL /\ pnd >= version

\* forgets the configs already processed
shouldStageVersion_noProcessed(stg, pnd, loc, version) ==
  (stg = NULL \/ stg < version)
    /\ ~isProcessingEqualOrHigherVersion(pnd, version)

\* accepts a version equal to the one staged, pending or local
shouldStageVersion_orEqual(stg, pnd, loc, version) ==
  (stg = NULL \/ stg <= version)
    /\ ~(pnd # NULL /\ pnd > version)
    /\ ~(loc # NULL /\ loc > version)

\* keeps what is staged whatever arrives
shouldStageVersion_firstWins(stg, pnd, loc, version) ==
  stg = NULL
    /\ ~isProcessingEqualOrHigherVersion(pnd, version)
    /\ ~hasProcessedVersion(loc, version)

shouldStageVersion(stg, pnd, loc, version) ==
  (stg = NULL \/ stg < version)
    /\ ~isProcessingEqualOrHigherVersion(pnd, version)
    /\ ~hasProcessedVersion(loc, version)

\* a storage member keeps asking for consistent reads once local is set
shouldDoConsistentConfigFetch_always(mode, loc) == isStorageMember(mode)

shouldDoConsistentConfigFetch(mode, loc) == isStorageMember(mode) /\ loc = NULL


NoResponse ==
  [status |-> "none", stored_version |-> NULL, stored_data |-> NoBlob]

NoCallback ==
  [id |-> 0, kind |-> "none", status |-> "none", nc |-> NULL,
   resp |-> NoResponse]

\* a CompletionCb: the call it was given to, and whose it is ("update" and
\* "overwrite": a caller's; "advance": the one of advanceIntermediaryShardStates)
CompletionCb(id, kind) == [id |-> id, kind |-> kind]

NoDelivery == [version |-> NULL, known |-> FALSE]

NoUpdate == [updates |-> << >>, serialize_ok |-> TRUE]

\* ------------------------------------------------- the state a handler sees
\* What the handlers read and write, as one record; Commit writes it back.
St ==
  [ staged |-> staged_nodes_config_,
    pending |-> pending_nodes_config_,
    local |-> local_nodes_config_,
    initialized |-> initialized_,
    reqs |-> ncm_requests,
    queue |-> worker_queue,
    futures |-> futures,
    reads |-> store_reads,
    ops |-> store_ops,
    next_call |-> next_call,
    cb_count |-> cb_count,
    last_cb |-> NoCallback,
    last_call |-> "none",
    resp |-> NoResponse,
    fanout_count |-> fanout_count,
    publish_count |-> publish_count,
    delivered |-> delivered,
    last_delivery |-> NoDelivery,
    last_update |-> NoUpdate,
    last_extract |-> 0,
    last_publish |-> NULL,
    arrived |-> arrived,
    skipped |-> skipped,
    mismatch_seen |-> mismatch_seen,
    tracker |-> tracker_,
    failed |-> FALSE ]

StVars ==
  << staged_nodes_config_, pending_nodes_config_, local_nodes_config_,
     initialized_, ncm_requests, worker_queue, futures, store_reads, store_ops,
     next_call, cb_count, fanout_count, publish_count, delivered,
     arrived, skipped, tracker_ >>

\* A failed ld_assert / ld_check aborts a debug build (the handler's other
\* effects die with the process); a release build carries on.  Which build
\* runs is settled at the first failed assertion.
Commit(st) ==
  \/ /\ st.failed /\ build = "any"
     /\ crashed' = TRUE
     /\ build' = "debug"
     /\ mismatch_seen' = st.mismatch_seen
     /\ last_cb' = NoCallback
     /\ last_call' = "none"
     /\ last_delivery' = NoDelivery
     /\ last_update' = NoUpdate
     /\ last_extract' = 0
     /\ last_publish' = NULL
     /\ UNCHANGED StVars
  \/ /\ QueueLen(st.reqs) <= MaxQueue
     /\ crashed' = crashed
     /\ build' = (IF st.failed THEN "release" ELSE build)
     /\ staged_nodes_config_' = st.staged
     /\ pending_nodes_config_' = st.pending
     /\ local_nodes_config_' = st.local
     /\ initialized_' = st.initialized
     /\ ncm_requests' = st.reqs
     /\ worker_queue' = st.queue
     /\ futures' = st.futures
     /\ store_reads' = st.reads
     /\ store_ops' = st.ops
     /\ next_call' = st.next_call
     /\ cb_count' = st.cb_count
     /\ last_cb' = st.last_cb
     /\ last_call' = st.last_call
     /\ fanout_count' = st.fanout_count
     /\ publish_count' = st.publish_count
     /\ delivered' = st.delivered
     /\ last_delivery' = st.last_delivery
     /\ last_update' = st.last_update
     /\ last_extract' = st.last_extract
     /\ last_publish' = st.last_publish
     /\ arrived' = st.arrived
     /\ skipped' = st.skipped
     /\ mismatch_seen' = st.mismatch_seen
     /\ tracker_' = st.tracker

\* callback(status, nc): a CompletionCb runs
Callback(st, callback, status, nc) ==
  [st EXCEPT !.cb_count[callback.id] = @ + 1,
             !.last_cb = [id |-> callback.id, kind |-> callback.kind,
                          status |-> status, nc |-> nc, resp |-> st.resp]]

\* ------------------------------------------------------------- the handlers

\* the gate forgets the Proposer test
update_noGate(st, kind, mode, shutdown) ==
  LET id == st.next_call
      s1 == [st EXCEPT !.next_call = id + 1]
  IN IF shutdown THEN Callback(s1, CompletionCb(id, kind), "SHUTDOWN", NULL)
     ELSE [s1 EXCEPT !.reqs = Post(@, UpdateRequest(id, kind))]

\* update(std::vector<Update>, CompletionCb)
update(st, kind, mode, shutdown) ==
  LET id == st.next_call
      s1 == [st EXCEPT !.next_call = id + 1]
      callback == CompletionCb(id, kind)
  IN IF shutdown THEN Callback(s1, callback, "SHUTDOWN", NULL)
     ELSE IF ~isProposer(mode) THEN Callback(s1, callback, "ACCESS", NULL)
     ELSE [s1 EXCEPT !.reqs = Post(@, UpdateRequest(id, kind))]

\* tracker_.extractNCUpdate(till) has a value: some shard the tracker knows of
\* (timed_out, by the clock) is past the timeout
extractNCUpdate(st, timed_out) ==
  timed_out /\ st.tracker # NULL /\ st.next_call <= MaxCalls

\* asks the tracker whatever the mode and the shutdown flag are
advanceIntermediaryShardStates_noGate(st, mode, shutdown, timed_out) ==
  IF extractNCUpdate(st, timed_out)
  THEN update([st EXCEPT !.last_extract = @ + 1], "advance", mode, shutdown)
  ELSE st

advanceIntermediaryShardStates(st, mode, shutdown, timed_out) ==
  IF ~isProposer(mode) \/ shutdown THEN st
  ELSE IF extractNCUpdate(st, timed_out)
       THEN update([st EXCEPT !.last_extract = @ + 1], "advance", mode,
                   shutdown)
  ELSE st

\* moves staged to pending whatever pending holds
maybeProcessStagedConfig_noPendingTest(st) ==
  IF st.staged = NULL THEN st
  ELSE LET v == st.staged
       IN [st EXCEPT !.failed = @ \/ hasProcessedVersion(st.local, v),
                     !.pending = v,
                     !.staged = NULL,
                     !.queue = [w \in Workers |-> Append(@[w], v)],
                     !.futures = @ \cup {[nc |-> v, waiting |-> Workers]},
                     !.fanout_count[v] = @ + 1,
                     !.skipped = @ \cup (st.arrived \ {v}),
                     !.arrived = {}]

\* posts initialized_ when the fan-out starts
maybeProcessStagedConfig_postsLatch(st) ==
  IF st.staged = NULL \/ st.pending # NULL THEN st
  ELSE LET v == st.staged
       IN [st EXCEPT !.failed = @ \/ hasProcessedVersion(st.local, v),
                     !.pending = v,
                     !.staged = NULL,
                     !.initialized = TRUE,
                     !.queue = [w \in Workers |-> Append(@[w], v)],
                     !.futures = @ \cup {[nc |-> v, waiting |-> Workers]},
                     !.fanout_count[v] = @ + 1,
                     !.skipped = @ \cup (st.arrived \ {v}),
                     !.arrived = {}]

maybeProcessStagedConfig(st) ==
  IF st.staged = NULL \/ st.pending # NULL THEN st
  ELSE LET v == st.staged
       IN [st EXCEPT !.failed = @ \/ hasProcessedVersion(st.local, v),
                     !.pending = v,
                     !.staged = NULL,
                     !.queue = [w \in Workers |-> Append(@[w], v)],
                     !.futures = @ \cup {[nc |-> v, waiting |-> Workers]},
                     !.fanout_count[v] = @ + 1,
                     !.skipped = @ \cup (st.arrived \ {v}),
                     !.arrived = {}]

\* stages a config whatever the shutdown flag is
onNewConfig_noShutdownTest(st, new_config, mode, shutdown, timed_out) ==
  LET s0 == [st EXCEPT !.arrived =
                IF st.pending # NULL /\ new_config > st.pending
                THEN @ \cup {new_config} ELSE @]
  IN IF ~shouldStageVersion(st.staged, st.pending, st.local, new_config)
     THEN s0
     ELSE LET s1 == [s0 EXCEPT !.staged = new_config,
                               !.tracker = new_config]
              s2 == advanceIntermediaryShardStates(
                      s1, mode, shutdown, timed_out)
          IN maybeProcessStagedConfig(s2)

\* onNewConfig(std::shared_ptr<const NodesConfiguration>)
onNewConfig(st, new_config, mode, shutdown, timed_out) ==
  IF shutdown THEN st
  ELSE LET s0 == [st EXCEPT !.arrived =
                     IF st.pending # NULL /\ new_config > st.pending
                     THEN @ \cup {new_config} ELSE @]
       IN IF ~shouldStageVersion(st.staged, st.pending, st.local, new_config)
          THEN s0
          ELSE LET s1 == [s0 EXCEPT !.staged = new_config,
                                    !.tracker = new_config]
                   s2 == advanceIntermediaryShardStates(
                           s1, mode, shutdown, timed_out)
               IN maybeProcessStagedConfig(s2)

\* onNewConfig(std::string)
onNewConfigString(st, blob, mode, shutdown, timed_out) ==
  IF shutdown THEN st
  ELSE LET new_version_opt == extractConfigVersion(blob)
       IN IF new_version_opt = NULL THEN st
          ELSE LET s0 == [st EXCEPT
                            !.last_delivery =
                              [version |-> new_version_opt,
                               known |-> new_version_opt \in
                                 {st.staged, st.pending, st.local}]]
                   parsed_config_ptr == deserialize(blob)
                   s1 == IF hasProcessedVersion(st.local, new_version_opt)
                         THEN s0
                         ELSE IF parsed_config_ptr = NULL THEN s0
                         ELSE onNewConfig(s0, parsed_config_ptr, mode,
                                          shutdown, timed_out)
               IN [s1 EXCEPT !.delivered =
                     IF parsed_config_ptr # NULL /\ new_version_opt \in
                          {s1.staged, s1.pending, s1.local}
                     THEN @ \cup {new_version_opt} ELSE @]

\* copies pending into local instead of moving it
onProcessingFinished_keepsPending(st, new_config) ==
  [st EXCEPT
     !.failed = @ \/ st.pending = NULL \/ new_config # st.pending
                  \/ hasProcessedVersion(st.local, new_config),
     !.local = st.pending,
     !.initialized = TRUE,
     !.last_publish = st.pending,
     !.publish_count =
       IF st.pending = NULL THEN @
       ELSE [@ EXCEPT ![st.pending] = @ + 1]]

onProcessingFinished(st, new_config) ==
  LET s1 == [st EXCEPT
               !.failed = @ \/ st.pending = NULL \/ new_config # st.pending
                            \/ hasProcessedVersion(st.local, new_config),
               !.local = st.pending,
               !.pending = NULL,
               !.initialized = TRUE,
               !.last_publish = st.pending,
               !.publish_count =
                 IF st.pending = NULL THEN @
                 ELSE [@ EXCEPT ![st.pending] = @ + 1]]
  IN maybeProcessStagedConfig(s1)

onHeartBeat(st, mode, shutdown, timed_out) ==
  LET s1 == [st EXCEPT !.reads =
               Post(@, shouldDoConsistentConfigFetch(mode, st.local))]
  IN advanceIntermediaryShardStates(s1, mode, shutdown, timed_out)

\* initOnNCM(): the first heartbeat, then the initial config
initOnNCM(st, init_nc, mode, shutdown, timed_out) ==
  onNewConfig(onHeartBeat(st, mode, shutdown, timed_out),
              init_nc, mode, shutdown, timed_out)


\* tests the mode before the shutdown flag
overwrite_accessFirst(st, configuration, mode, shutdown) ==
  LET id == st.next_call
      s1 == [st EXCEPT !.next_call = id + 1]
      callback == CompletionCb(id, "overwrite")
  IN IF ~isTooling(mode) THEN Callback(s1, callback, "ACCESS", NULL)
     ELSE IF shutdown THEN Callback(s1, callback, "SHUTDOWN", NULL)
     ELSE IF configuration = NULL
          THEN Callback(s1, callback, "INVALID_PARAM", NULL)
     ELSE [s1 EXCEPT !.ops =
             @ \cup {[id |-> id, kind |-> "overwrite", base |-> NULL,
                      nc |-> configuration]}]

\* overwrite(): what it does before handing over to deps()->overwrite()
overwrite(st, configuration, mode, shutdown) ==
  LET id == st.next_call
      s1 == [st EXCEPT !.next_call = id + 1]
      callback == CompletionCb(id, "overwrite")
  IN IF shutdown THEN Callback(s1, callback, "SHUTDOWN", NULL)
     ELSE IF ~isTooling(mode) THEN Callback(s1, callback, "ACCESS", NULL)
     ELSE IF configuration = NULL
          THEN Callback(s1, callback, "INVALID_PARAM", NULL)
     ELSE [s1 EXCEPT !.ops =
             @ \cup {[id |-> id, kind |-> "overwrite", base |-> NULL,
                      nc |-> configuration]}]

\* NodesConfiguration::applyUpdate(): bumps the version, or fails (u = FALSE)
applyUpdate(nc, u) == IF u THEN nc + 1 ELSE NULL

\* skips the updates applyUpdate() rejects
RECURSIVE applyUpdates_skipRejected(_, _)
applyUpdates_skipRejected(nc, updates) ==
  IF updates = << >> THEN nc
  ELSE LET new_config == applyUpdate(nc, Head(updates))
       IN applyUpdates_skipRejected(
            IF new_config = NULL THEN nc ELSE new_config, Tail(updates))

RECURSIVE applyUpdates(_, _)
applyUpdates(nc, updates) ==
  IF updates = << >> THEN nc
  ELSE LET new_config == applyUpdate(nc, Head(updates))
       IN IF new_config = NULL THEN NULL
          ELSE applyUpdates(new_config, Tail(updates))

\* keeps the version the last applyUpdate() gave
withVersion_keep(nc, version) == nc

withVersion(nc, version) == version

\* onUpdateRequest(), up to the call of store_->updateConfig()
onUpdateRequest(st, callback, updates, serialize_ok, mode) ==
  IF ~isProposer(mode) THEN Callback(st, callback, "ACCESS", NULL)
  ELSE LET current_version == getLatestKnownConfig(st.local, st.pending, st.staged)
           applied == applyUpdates(current_version, updates)
       IN IF applied = NULL THEN Callback(st, callback, "err", NULL)
          ELSE LET new_config == withVersion(applied, current_version + 1)
                   serialized == serialize(new_config, serialize_ok)
               IN IF serialized = NoBlob
                  THEN Callback(st, callback, "err", NULL)
                  ELSE [st EXCEPT !.ops =
                          @ \cup {[id |-> callback.id, kind |-> callback.kind,
                                   base |-> current_version,
                                   nc |-> new_config]}]

\* notify_ncm_of_new_config: posts a NewConfigRequest unless shut down
notify_ncm_of_new_config(st, new_config_ptr, shutdown) ==
  IF shutdown THEN st
  ELSE [st EXCEPT !.reqs = Post(@, NewConfigRequest(new_config_ptr))]

\* keeps the stored config from the caller
updateConfigCallback_noConfig(st, callback, new_config, status, stored_version, stored_data, shutdown) ==
  IF status # "OK" THEN Callback(st, callback, status, NULL)
  ELSE Callback(notify_ncm_of_new_config(st, new_config, shutdown),
                callback, "OK", new_config)

\* the callback onUpdateRequest() gives to store_->updateConfig()
updateConfigCallback(st, callback, new_config, status, stored_version, stored_data, shutdown) ==
  IF status = "VERSION_MISMATCH" /\ stored_version # EMPTY_VERSION
       /\ stored_data # NoBlob
  THEN LET extracted_version_opt == extractConfigVersion(stored_data)
           stored_config == deserialize(stored_data)
           s1 == [st EXCEPT
                    !.failed = @ \/ extracted_version_opt = NULL
                                 \/ stored_version # extracted_version_opt
                                 \/ ~(stored_version > new_config)
                                 \/ stored_config = NULL,
                    !.mismatch_seen = max(@, stored_version)]
           s2 == notify_ncm_of_new_config(s1, stored_config, shutdown)
       IN Callback(s2, callback, "VERSION_MISMATCH", stored_config)
  ELSE IF status # "OK" THEN Callback(st, callback, status, NULL)
  ELSE LET s1 == [st EXCEPT !.failed = @ \/ stored_version # new_config]
           s2 == notify_ncm_of_new_config(s1, new_config, shutdown)
       IN Callback(s2, callback, "OK", new_config)

\* the callback deps()->overwrite() gives to the store
overwriteCallback(st, callback, configuration, status) ==
  IF status = "OK" THEN Callback(st, callback, "OK", configuration)
  ELSE Callback(st, callback, status, NULL)

\* -------------------------------------------------------------- the store
\* updateConfig(blob, base_version): what the store may answer, and the
\* version it holds afterwards.  A lost compare-and-swap is answered with the
\* version and blob the store holds: EMPTY_VERSION and no blob when it holds
\* nothing.  overwrite() writes without a base version.
StoreResponses(op, held) ==
  {[status |-> "AGAIN", stored_version |-> EMPTY_VERSION,
    stored_data |-> NoBlob, holds |-> held]}
  \cup
  (IF op.base = NULL \/ op.base = held
   THEN {[status |-> "OK", stored_version |-> op.nc,
          stored_data |-> NoBlob, holds |-> op.nc]}
   ELSE {[status |-> "VERSION_MISMATCH", stored_version |-> held,
          stored_data |-> serialize(held, held # EMPTY_VERSION),
          holds |-> held]})


\* ------------------------------------------------------------------- Init
\* The modes a manager is constructed with (the constructor asserts isValid).
InitModes == {forTooling, forNodeRoles(NodeRoles)}

Batches == UNION {[1..n -> BOOLEAN] : n \in 1..MaxBatch}

\* what overwrite() is called with: no configuration, or an old one
OverwriteConfigs == {NULL, 1}

Init ==
  /\ mode_ \in InitModes
  /\ shutdown_signaled_ = FALSE
  /\ staged_nodes_config_ = NULL
  /\ pending_nodes_config_ = NULL
  /\ local_nodes_config_ = NULL
  /\ initialized_ = FALSE
  /\ shutdown_completed_ = FALSE
  /\ build = "any"
  /\ crashed = FALSE
  /\ init_called = FALSE
  /\ cold_init = NULL
  /\ heartbeat_timer = FALSE
  /\ ncm_requests = EmptyBag
  /\ worker_queue = [w \in Workers |-> << >>]
  /\ futures = {}
  /\ store_version = EMPTY_VERSION
  /\ store_ops = {}
  /\ store_reads = EmptyBag
  /\ next_call = 1
  /\ cb_count = [id \in CallIds |-> 0]
  /\ last_cb = NoCallback
  /\ last_call = "none"
  /\ worker_config = [w \in Workers |-> NULL]
  /\ fanout_count = [v \in Versions |-> 0]
  /\ publish_count = [v \in Versions |-> 0]
  /\ delivered = {}
  /\ last_delivery = NoDelivery
  /\ last_update = NoUpdate
  /\ last_extract = 0
  /\ last_publish = NULL
  /\ arrived = {}
  /\ skipped = {}
  /\ mismatch_seen = NULL
  /\ tracker_ = NULL

\* ---------------------------------------------------------------- actions
\* variables no handler of the NCM thread writes
EnvVars ==
  << mode_, shutdown_signaled_, shutdown_completed_, init_called, cold_init,
     heartbeat_timer, store_version, worker_config >>

\* the pipeline and what is recorded about it
PipelineVars ==
  << staged_nodes_config_, pending_nodes_config_, local_nodes_config_,
     initialized_, tracker_, fanout_count, publish_count, delivered,
     arrived, skipped, mismatch_seen, build, crashed >>

CallVars == << next_call, cb_count, store_ops >>

\* init(init_nc, wait_until_initialized): deps_->init() posts the InitRequest
InitCall(init_nc) ==
  /\ ~crashed /\ ~init_called
  /\ QueueLen(ncm_requests) < MaxQueue
  /\ init_called' = TRUE
  /\ cold_init' = cold_init
  /\ ncm_requests' = IF shutdown_signaled_ THEN ncm_requests
                     ELSE Post(ncm_requests, InitRequest(init_nc))
  /\ last_cb' = NoCallback
  /\ last_call' = "none"
  /\ last_delivery' = NoDelivery
  /\ last_update' = NoUpdate
  /\ last_extract' = 0
  /\ last_publish' = NULL
  /\ UNCHANGED << mode_, shutdown_signaled_, shutdown_completed_,
                  heartbeat_timer, store_version,
                  worker_config, worker_queue, futures, store_reads >>
  /\ UNCHANGED << PipelineVars, CallVars >>

UpgradeToProposerCall ==
  /\ ~crashed
  /\ mode_' = upgradeToProposer(mode_)
  /\ last_cb' = NoCallback
  /\ last_call' = "none"
  /\ last_delivery' = NoDelivery
  /\ last_update' = NoUpdate
  /\ last_extract' = 0
  /\ last_publish' = NULL
  /\ UNCHANGED << shutdown_signaled_, shutdown_completed_, init_called, cold_init,
                  heartbeat_timer, store_version,
                  worker_config, ncm_requests, worker_queue, futures,
                  store_reads >>
  /\ UNCHANGED << PipelineVars, CallVars >>

\* shutdown(): the flag, then deps_->shutdown() posts the ShutdownRequest
ShutdownCall ==
  /\ ~crashed /\ ~shutdown_signaled_
  /\ shutdown_signaled_' = TRUE
  /\ ncm_requests' = Post(ncm_requests, ShutdownRequest)
  /\ last_cb' = NoCallback
  /\ last_call' = "none"
  /\ last_delivery' = NoDelivery
  /\ last_update' = NoUpdate
  /\ last_extract' = 0
  /\ last_publish' = NULL
  /\ UNCHANGED << mode_, shutdown_completed_, init_called, cold_init, heartbeat_timer,
                  store_version, worker_config,
                  worker_queue, futures, store_reads >>
  /\ UNCHANGED << PipelineVars, CallVars >>

\* shutdown() has returned: initialized_.wait() and shutdown_completed_.wait()
\* are both over
shutdownReturned == shutdown_signaled_ /\ initialized_ /\ shutdown_completed_

\* update(), from a caller's thread
UpdateCall ==
  /\ ~crashed /\ next_call <= MaxCalls
  /\ Commit([update(St, "update", mode_, shutdown_signaled_)
               EXCEPT !.last_call = "update"])
  /\ UNCHANGED EnvVars

\* overwrite(), from a caller's thread
OverwriteCall(configuration) ==
  /\ ~crashed /\ next_call <= MaxCalls
  /\ Commit([overwrite(St, configuration, mode_, shutdown_signaled_)
               EXCEPT !.last_call = "overwrite"])
  /\ UNCHANGED EnvVars

Queued(type) == {r \in BagToSet(ncm_requests) : r.type = type}

Taken(r) == [St EXCEPT !.reqs = Take(@, r)]

ExecInitRequest(r, timed_out) ==
  /\ ~crashed /\ r \in Queued("Init")
  /\ Commit(initOnNCM(Taken(r), r.nc, mode_, shutdown_signaled_, timed_out))
  /\ heartbeat_timer' = (IF crashed' THEN heartbeat_timer ELSE TRUE)
  /\ cold_init' =
       IF ~crashed' /\ ~shutdown_signaled_ /\ staged_nodes_config_ = NULL
            /\ pending_nodes_config_ = NULL /\ local_nodes_config_ = NULL
       THEN r.nc ELSE cold_init
  /\ UNCHANGED << mode_, shutdown_signaled_, shutdown_completed_,
                  init_called, store_version,
                  worker_config >>

ExecNewConfigRequest(r, timed_out) ==
  /\ ~crashed /\ r \in Queued("NewConfig")
  /\ Commit(onNewConfig(Taken(r), r.nc, mode_, shutdown_signaled_, timed_out))
  /\ UNCHANGED EnvVars

ExecNewConfigFromStore(r, timed_out) ==
  /\ ~crashed /\ r \in Queued("NewConfigStr")
  /\ Commit(onNewConfigString(Taken(r), r.blob, mode_, shutdown_signaled_,
                              timed_out))
  /\ UNCHANGED EnvVars

ExecUpdateRequest(r, updates, serialize_ok) ==
  /\ ~crashed /\ r \in Queued("update") \cup Queued("advance")
  /\ applyUpdates(0, updates) # NULL /\ serialize_ok
       => getLatestKnownConfig(local_nodes_config_, pending_nodes_config_,
                               staged_nodes_config_) < MaxVersion
  /\ Commit([onUpdateRequest(Taken(r), CompletionCb(r.id, r.type), updates,
                             serialize_ok, mode_)
               EXCEPT !.last_update =
                        [updates |-> updates, serialize_ok |-> serialize_ok]])
  /\ UNCHANGED EnvVars

ExecProcessingFinishedRequest(r) ==
  /\ ~crashed /\ r \in Queued("ProcessingFinished")
  /\ Commit(onProcessingFinished(Taken(r), r.nc))
  /\ UNCHANGED EnvVars

\* the ShutdownRequest: cancels the heartbeat timer, posts shutdown_completed_
ExecShutdownRequest(r) ==
  /\ ~crashed /\ r \in Queued("Shutdown")
  /\ Commit(Taken(r))
  /\ heartbeat_timer' = FALSE
  /\ shutdown_completed_' = TRUE
  /\ UNCHANGED << mode_, shutdown_signaled_, init_called, cold_init,
                  store_version, worker_config >>

\* the heartbeat timer fires on the NCM thread
HeartBeat(timed_out) ==
  /\ ~crashed /\ heartbeat_timer /\ BagCardinality(store_reads) < MaxReads
  /\ Commit(onHeartBeat(St, mode_, shutdown_signaled_, timed_out))
  /\ UNCHANGED << mode_, shutdown_signaled_, shutdown_completed_,
                  init_called, cold_init, heartbeat_timer, store_version,
                  worker_config >>

\* the continuation runs as soon as one worker has finished
WorkerRun_firstDone(w) ==
  /\ ~crashed /\ worker_queue[w] # << >>
  /\ LET config == Head(worker_queue[w])
         mine == {f \in futures : f.nc = config /\ w \in f.waiting}
         rest == {[nc |-> f.nc, waiting |-> f.waiting \ {w}] : f \in mine}
         done == {f \in rest : f.waiting = {}}
     IN /\ worker_config' = [worker_config EXCEPT ![w] = config]
        /\ worker_queue' = [worker_queue EXCEPT ![w] = Tail(@)]
        /\ futures' = (futures \ mine) \cup (rest \ done)
        /\ ncm_requests' =
             IF mine # {} /\ ~shutdown_signaled_
             THEN Post(ncm_requests, ProcessingFinishedRequest(config))
             ELSE ncm_requests
  /\ last_cb' = NoCallback
  /\ last_call' = "none"
  /\ last_delivery' = NoDelivery
  /\ last_update' = NoUpdate
  /\ last_extract' = 0
  /\ last_publish' = NULL
  /\ UNCHANGED << mode_, shutdown_signaled_, shutdown_completed_, init_called, cold_init,
                  heartbeat_timer, store_version,
                  store_reads >>
  /\ UNCHANGED << PipelineVars, CallVars >>

\* a worker runs the fan-out task at the head of its queue; the last worker
\* of a fan-out runs the continuation of collectAllSemiFuture
WorkerRun(w) ==
  /\ ~crashed /\ worker_queue[w] # << >>
  /\ LET config == Head(worker_queue[w])
         mine == {f \in futures : f.nc = config /\ w \in f.waiting}
         rest == {[nc |-> f.nc, waiting |-> f.waiting \ {w}] : f \in mine}
         done == {f \in rest : f.waiting = {}}
     IN /\ worker_config' = [worker_config EXCEPT ![w] = config]
        /\ worker_queue' = [worker_queue EXCEPT ![w] = Tail(@)]
        /\ futures' = (futures \ mine) \cup (rest \ done)
        /\ ncm_requests' =
             IF done # {} /\ ~shutdown_signaled_
             THEN Post(ncm_requests, ProcessingFinishedRequest(config))
             ELSE ncm_requests
  /\ last_cb' = NoCallback
  /\ last_call' = "none"
  /\ last_delivery' = NoDelivery
  /\ last_update' = NoUpdate
  /\ last_extract' = 0
  /\ last_publish' = NULL
  /\ UNCHANGED << mode_, shutdown_signaled_, shutdown_completed_, init_called, cold_init,
                  heartbeat_timer, store_version,
                  store_reads >>
  /\ UNCHANGED << PipelineVars, CallVars >>

\* the store answers an updateConfig; its callback runs on the store's thread
StoreAnswerUpdate(op, resp) ==
  /\ ~crashed /\ op \in store_ops
  /\ resp \in StoreResponses(op, store_version)
  /\ store_version' = resp.holds
  /\ LET s1 == [St EXCEPT !.ops = @ \ {op},
                          !.resp = [status |-> resp.status,
                                    stored_version |-> resp.stored_version,
                                    stored_data |-> resp.stored_data]]
         callback == CompletionCb(op.id, op.kind)
     IN Commit(IF op.kind = "overwrite"
               THEN overwriteCallback(s1, callback, op.nc, resp.status)
               ELSE updateConfigCallback(s1, callback, op.nc, resp.status,
                                         resp.stored_version, resp.stored_data,
                                         shutdown_signaled_))
  /\ UNCHANGED << mode_, shutdown_signaled_, shutdown_completed_,
                  init_called, cold_init, heartbeat_timer,
                  worker_config >>

\* the store answers a read of readFromStore(): the blob goes to the NCM thread
StoreAnswerRead(consistent, form) ==
  /\ ~crashed /\ BagIn(consistent, store_reads)
  /\ QueueLen(ncm_requests) < MaxQueue
  /\ store_reads' = Take(store_reads, consistent)
  /\ ncm_requests' =
       IF store_version = EMPTY_VERSION THEN ncm_requests
       ELSE Post(ncm_requests,
                 NewConfigFromStore([version |-> store_version, form |-> form]))
  /\ last_cb' = NoCallback
  /\ last_call' = "none"
  /\ last_delivery' = NoDelivery
  /\ last_update' = NoUpdate
  /\ last_extract' = 0
  /\ last_publish' = NULL
  /\ UNCHANGED << mode_, shutdown_signaled_, shutdown_completed_, init_called, cold_init,
                  heartbeat_timer, store_version,
                  worker_config, worker_queue, futures >>
  /\ UNCHANGED << PipelineVars, CallVars >>

\* another proposer wins a CAS on the store
OtherProposerWrite ==
  /\ ~crashed /\ store_version < MaxVersion
  /\ store_version' = store_version + 1
  /\ last_cb' = NoCallback
  /\ last_call' = "none"
  /\ last_delivery' = NoDelivery
  /\ last_update' = NoUpdate
  /\ last_extract' = 0
  /\ last_publish' = NULL
  /\ UNCHANGED << mode_, shutdown_signaled_, shutdown_completed_, init_called, cold_init,
                  heartbeat_timer, worker_config, ncm_requests,
                  worker_queue, futures, store_reads >>
  /\ UNCHANGED << PipelineVars, CallVars >>

Next ==
  \/ \E init_nc \in 0..MaxInitVersion : InitCall(init_nc)
  \/ UpgradeToProposerCall
  \/ ShutdownCall
  \/ UpdateCall
  \/ \E configuration \in OverwriteConfigs : OverwriteCall(configuration)
  \/ \E r \in BagToSet(ncm_requests), timed_out \in BOOLEAN :
       \/ ExecInitRequest(r, timed_out)
       \/ ExecNewConfigRequest(r, timed_out)
       \/ ExecNewConfigFromStore(r, timed_out)
  \/ \E r \in BagToSet(ncm_requests), updates \in Batches,
        serialize_ok \in BOOLEAN : ExecUpdateRequest(r, updates, serialize_ok)
  \/ \E r \in BagToSet(ncm_requests) :
       \/ ExecProcessingFinishedRequest(r)
       \/ ExecShutdownRequest(r)
  \/ \E timed_out \in BOOLEAN : HeartBeat(timed_out)
  \/ \E w \in Workers : WorkerRun(w)
  \/ \E op \in store_ops :
       \E resp \in StoreResponses(op, store_version) : StoreAnswerUpdate(op, resp)
  \/ \E consistent \in BOOLEAN, form \in BlobForms :
       StoreAnswerRead(consistent, form)
  \/ OtherProposerWrite

Spec == Init /\ [][Next]_vars

\* the NCM thread, the workers and the store each get to run
Fairness ==
  /\ WF_vars(\E r \in BagToSet(ncm_requests), timed_out \in BOOLEAN :
               \/ ExecInitRequest(r, timed_out)
               \/ ExecNewConfigRequest(r, timed_out)
               \/ ExecNewConfigFromStore(r, timed_out))
  /\ WF_vars(\E r \in BagToSet(ncm_requests), updates \in Batches,
                serialize_ok \in BOOLEAN :
               ExecUpdateRequest(r, updates, serialize_ok))
  /\ WF_vars(\E r \in BagToSet(ncm_requests) :
               \/ ExecProcessingFinishedRequest(r)
               \/ ExecShutdownRequest(r))
  /\ \A w \in Workers : WF_vars(WorkerRun(w))
  /\ WF_vars(\E op \in store_ops :
               \E resp \in StoreResponses(op, store_version) :
                 StoreAnswerUpdate(op, resp))

FairSpec == Init /\ [][Next]_vars /\ Fairness

\* ------------------------------------------------- a proposer on its own
\* A tooling proposer whose callers make up to MaxProposals update() calls,
\* with no shutdown and nobody else writing to the store.
ProposerInit == Init /\ mode_ = forTooling

ProposerUpdateCall ==
  /\ ~crashed /\ next_call <= MaxProposals
  /\ Commit([update(St, "update", mode_, shutdown_signaled_)
               EXCEPT !.last_call = "update"])
  /\ UNCHANGED EnvVars

ProposerNext ==
  \/ ProposerUpdateCall
  \/ \E r \in BagToSet(ncm_requests), updates \in Batches,
        serialize_ok \in BOOLEAN : ExecUpdateRequest(r, updates, serialize_ok)
  \/ \E r \in BagToSet(ncm_requests) : ExecNewConfigRequest(r, FALSE)
  \/ \E r \in BagToSet(ncm_requests) : ExecProcessingFinishedRequest(r)
  \/ \E w \in Workers : WorkerRun(w)
  \/ \E op \in store_ops :
       \E resp \in StoreResponses(op, store_version) : StoreAnswerUpdate(op, resp)

ProposerFairSpec == ProposerInit /\ [][ProposerNext]_vars /\ Fairness

\* ------------------------------------- the intermediary-state advancement
\* A manager nobody calls update() or overwrite() on and whose store has no
\* other writer: the only proposals are those of
\* advanceIntermediaryShardStates, made on heartbeats and on staged configs.
AdvanceNext ==
  \/ \E init_nc \in 0..MaxInitVersion : InitCall(init_nc)
  \/ UpgradeToProposerCall
  \/ ShutdownCall
  \/ \E r \in BagToSet(ncm_requests), timed_out \in BOOLEAN :
       \/ ExecInitRequest(r, timed_out)
       \/ ExecNewConfigRequest(r, timed_out)
       \/ ExecNewConfigFromStore(r, timed_out)
  \/ \E r \in BagToSet(ncm_requests), updates \in Batches,
        serialize_ok \in BOOLEAN : ExecUpdateRequest(r, updates, serialize_ok)
  \/ \E r \in BagToSet(ncm_requests) :
       \/ ExecProcessingFinishedRequest(r)
       \/ ExecShutdownRequest(r)
  \/ \E timed_out \in BOOLEAN : HeartBeat(timed_out)
  \/ \E w \in Workers : WorkerRun(w)
  \/ \E op \in store_ops :
       \E resp \in StoreResponses(op, store_version) : StoreAnswerUpdate(op, resp)
  \/ \E consistent \in BOOLEAN : StoreAnswerRead(consistent, "ok")

AdvanceFairSpec == Init /\ [][AdvanceNext]_vars /\ Fairness

\* -------------------------------------------------- OperationMode on its own
\* Every value of the Flags bitset, under the calls that read or set it.
ModeInit ==
  /\ mode_ \in SUBSET AllFlags
  /\ shutdown_signaled_ = FALSE
  /\ staged_nodes_config_ = NULL
  /\ pending_nodes_config_ = NULL
  /\ local_nodes_config_ = NULL
  /\ initialized_ = FALSE
  /\ shutdown_completed_ = FALSE
  /\ build = "any"
  /\ crashed = FALSE
  /\ init_called = FALSE
  /\ cold_init = NULL
  /\ heartbeat_timer = FALSE
  /\ ncm_requests = EmptyBag
  /\ worker_queue = [w \in Workers |-> << >>]
  /\ futures = {}
  /\ store_version = EMPTY_VERSION
  /\ store_ops = {}
  /\ store_reads = EmptyBag
  /\ next_call = 1
  /\ cb_count = [id \in CallIds |-> 0]
  /\ last_cb = NoCallback
  /\ last_call = "none"
  /\ last_delivery = NoDelivery
  /\ last_update = NoUpdate
  /\ last_extract = 0
  /\ last_publish = NULL
  /\ worker_config = [w \in Workers |-> NULL]
  /\ fanout_count = [v \in Versions |-> 0]
  /\ publish_count = [v \in Versions |-> 0]
  /\ delivered = {}
  /\ arrived = {}
  /\ skipped = {}
  /\ mismatch_seen = NULL
  /\ tracker_ = NULL

ModeNext ==
  \/ UpgradeToProposerCall
  \/ ShutdownCall
  \/ UpdateCall
  \/ \E configuration \in OverwriteConfigs : OverwriteCall(configuration)

ModeSpec == ModeInit /\ [][ModeNext]_vars

\* ----------------------------------------------------------------- claims

\* C1: across every step the version held in local never decreases, and once
\* local is non-empty it never becomes empty again.
C1_MonotonicPublish ==
  [][local_nodes_config_ # NULL =>
       /\ local_nodes_config_' # NULL
       /\ local_nodes_config_' >= local_nodes_config_]_vars

\* local has moved from one published version to a higher one
C1_Witness ==
  /\ local_nodes_config_ # NULL
  /\ \E v \in Versions : v < local_nodes_config_ /\ publish_count[v] = 1

\* C2: whenever a worker runs a fan-out task (its hook is invoked), the task's
\* version is strictly above the version its hook last ran for.
C2_PerWorkerOrdering ==
  [][\A w \in Workers :
       (worker_queue[w] # << >> /\ worker_queue'[w] = Tail(worker_queue[w]))
         => /\ worker_config'[w] = Head(worker_queue[w])
            /\ worker_config[w] = NULL
                 \/ Head(worker_queue[w]) > worker_config[w]]_vars

\* a worker's hook has run for one version and later for a higher one
C2_Witness ==
  \E w \in Workers :
    /\ worker_config[w] # NULL
    /\ \E v \in Versions : v < worker_config[w] /\ publish_count[v] = 1

\* C3: staged moves into pending, and a fan-out starts, only when pending is
\* empty (or has been moved into local by the same onProcessingFinished); a
\* fan-out starts only with such a move; at most one fan-out is in progress,
\* and it is the one of pending.
C3_AtMostOnePending ==
  [][/\ (pending_nodes_config_' # pending_nodes_config_
           /\ pending_nodes_config_' # NULL)
          => /\ pending_nodes_config_ = NULL
                  \/ local_nodes_config_' = pending_nodes_config_
             /\ staged_nodes_config_' = NULL
             /\ fanout_count' =
                  [fanout_count EXCEPT ![pending_nodes_config_'] = @ + 1]
     /\ fanout_count' # fanout_count
          => pending_nodes_config_' # pending_nodes_config_
               /\ pending_nodes_config_' # NULL
     /\ (pending_nodes_config_ # NULL
           /\ pending_nodes_config_' = pending_nodes_config_)
          => /\ worker_queue' = worker_queue
                  \/ \E w \in Workers :
                       /\ worker_queue[w] # << >>
                       /\ worker_queue' =
                            [worker_queue EXCEPT ![w] = Tail(worker_queue[w])]
             /\ futures' \subseteq futures
                  \/ Cardinality(futures') = Cardinality(futures)
     /\ Cardinality(futures') <= 1
     /\ \A f \in futures' : f.nc = pending_nodes_config_'
     /\ \A w \in Workers : Len(worker_queue'[w]) <= 1]_vars

\* a config waits in staged while the fan-out of pending is in progress
C3_Witness ==
  /\ staged_nodes_config_ # NULL
  /\ pending_nodes_config_ # NULL
  /\ futures # {}

\* C4: when onProcessingFinished ends a fan-out during which configs above
\* pending arrived, the highest of them becomes pending and is fanned out
\* to every worker; the others are never fanned out, never handed to a
\* worker and never pending or local.
C4_LatestWins ==
  [][/\ (publish_count' # publish_count /\ arrived # {})
          => /\ pending_nodes_config_' = Max(arrived)
             /\ fanout_count'[Max(arrived)] = fanout_count[Max(arrived)] + 1
             /\ \A w \in Workers :
                  worker_queue'[w] = Append(worker_queue[w], Max(arrived))
     /\ \A v \in skipped' :
          /\ fanout_count'[v] = 0
          /\ publish_count'[v] = 0
          /\ pending_nodes_config_' # v
          /\ local_nodes_config_' # v
          /\ \A w \in Workers :
               /\ worker_config'[w] # v
               /\ \A i \in 1..Len(worker_queue'[w]) : worker_queue'[w][i] # v]_vars

\* three configs arrived while the first was pending; the highest is now
\* pending, the first is local and the two others were dropped
C4_Witness ==
  /\ Cardinality(skipped) = 2
  /\ pending_nodes_config_ = MaxVersion
  /\ fanout_count[MaxVersion] = 1
  /\ local_nodes_config_ # NULL
  /\ \A v \in skipped : local_nodes_config_ < v /\ v < pending_nodes_config_

\* C5: after the store has answered an update with VERSION_MISMATCH, stored
\* version s and the stored blob, local reaches a version >= s unless
\* shutdown is signaled.
C5_CasRebase ==
  (mismatch_seen # NULL)
    ~> (shutdown_signaled_
          \/ (local_nodes_config_ # NULL
                /\ local_nodes_config_ >= mismatch_seen))

\* what a refused call leaves behind: its callback ran once, with the status
\* and no config; nothing was posted, the store and the pipeline are untouched
Refused(status) ==
  /\ last_cb'.id = next_call
  /\ last_cb'.status = status
  /\ last_cb'.nc = NULL
  /\ cb_count' = [cb_count EXCEPT ![next_call] = 1]
  /\ UNCHANGED << ncm_requests, store_ops, store_reads, store_version,
                  staged_nodes_config_, pending_nodes_config_,
                  local_nodes_config_ >>

\* C6, as stated: update() without Proposer, and overwrite() without
\* Tooling, fail with ACCESS, whatever else holds.
C6_AccessAlways ==
  [][/\ (last_call' = "update" /\ ~isProposer(mode_)) => Refused("ACCESS")
     /\ (last_call' = "overwrite" /\ ~isTooling(mode_)) => Refused("ACCESS")]_vars

\* C6, amended: update() without Proposer, and overwrite() without Tooling,
\* are refused: with ACCESS if shutdown is not signaled, with SHUTDOWN if it
\* is; in both cases no config, no request, no store access, no change to
\* staged, pending and local.
C6_ModeGating ==
  [][/\ (last_call' = "update" /\ ~isProposer(mode_))
          => Refused(IF shutdown_signaled_ THEN "SHUTDOWN" ELSE "ACCESS")
     /\ (last_call' = "overwrite" /\ ~isTooling(mode_))
          => Refused(IF shutdown_signaled_ THEN "SHUTDOWN" ELSE "ACCESS")]_vars

\* an overwrite() on a proposer without Tooling was refused with ACCESS
C6_Witness ==
  /\ last_call = "overwrite"
  /\ isProposer(mode_) /\ ~isTooling(mode_)
  /\ last_cb.status = "ACCESS"
  /\ local_nodes_config_ # NULL

\* nothing staged, pending, queued or in flight, and the manager runs
Quiescent ==
  /\ staged_nodes_config_ = NULL
  /\ pending_nodes_config_ = NULL
  /\ ncm_requests = EmptyBag
  /\ futures = {}
  /\ ~shutdown_signaled_
  /\ ~crashed

C8_IsValid ==
  /\ isValid(mode_) <=>
       ~(\/ {"Client", "Coordinator"} \subseteq mode_
         \/ mode_ \cap {"Client", "Tooling", "StorageMember", "Sequencer"} = {})
  /\ ~isValid(forNodeRoles({}))
  /\ ~isValid(setFlags(forClient, kIsCoordinator))
  /\ isValid(forClient)
  /\ isValid(forTooling) /\ isProposer(forTooling)

\* a mode with the sequencer role only, made a proposer: valid
C8_Witness ==
  /\ mode_ = {"Sequencer", "Proposer"}
  /\ isValid(mode_)
  /\ last_call = "update"

\* upgradeToProposer on any mode: clears nothing, sets Proposer, keeps validity
UpgradeKeepsFlags ==
  \A m \in SUBSET AllFlags :
    /\ m \subseteq upgradeToProposer(m)
    /\ isProposer(upgradeToProposer(m))
    /\ isValid(m) => isValid(upgradeToProposer(m))

\* C9: no step clears a flag of the mode, so a Proposer stays one, and
\* upgradeToProposer keeps a valid mode valid.
C9_ProposerMonotonic ==
  [][/\ mode_ \subseteq mode_'
     /\ isProposer(mode_) => isProposer(mode_')
     /\ isValid(mode_) => isValid(mode_')
     /\ UpgradeKeepsFlags]_vars

\* a storage node was upgraded and has since published a config
C9_Witness ==
  /\ isProposer(mode_)
  /\ isStorageMember(mode_)
  /\ local_nodes_config_ # NULL
  /\ shutdown_signaled_

\* C10, as stated: a callback run with VERSION_MISMATCH gets the config the
\* store holds.
C10_MismatchCarriesWinner ==
  (last_cb.kind = "update" /\ last_cb.status = "VERSION_MISMATCH")
    => last_cb.nc # NULL /\ last_cb.nc = store_version

\* C10, amended: a callback run with VERSION_MISMATCH gets the config the
\* store holds when the store's answer has a stored version and blob, and no
\* config when it has none (the store holds nothing).
C10_MismatchCarriesWinnerIfStored ==
  (last_cb.kind = "update" /\ last_cb.status = "VERSION_MISMATCH") =>
    IF last_cb.resp.stored_version # EMPTY_VERSION
         /\ last_cb.resp.stored_data # NoBlob
    THEN /\ last_cb.nc # NULL
         /\ last_cb.nc = deserialize(last_cb.resp.stored_data)
         /\ last_cb.nc = store_version
    ELSE last_cb.nc = NULL /\ store_version = EMPTY_VERSION

\* an update lost the compare-and-swap to a stored config and got it
C10_Witness ==
  /\ last_cb.kind = "update"
  /\ last_cb.status = "VERSION_MISMATCH"
  /\ last_cb.nc # NULL
  /\ last_cb.nc = store_version

\* the versions present among local, pending and staged
Known ==
  {local_nodes_config_, pending_nodes_config_, staged_nodes_config_} \ {NULL}

\* C11: when onUpdateRequest hands a proposal to the store, its expected base
\* version is the highest version among local, pending and staged (0 when all
\* are absent) and the proposed config has exactly that version plus one,
\* whatever the length of the batch; every batch that applies cleanly and
\* serializes is handed to the store.
C11_ProposalShape ==
  [][/\ \A op \in store_ops' \ store_ops :
          op.kind # "overwrite" =>
            /\ op.base = (IF Known = {} THEN 0 ELSE Max(Known))
            /\ op.nc = op.base + 1
            /\ Len(last_update'.updates) >= 1
     /\ (/\ last_update'.updates # << >>
         /\ \A i \in 1..Len(last_update'.updates) : last_update'.updates[i]
         /\ last_update'.serialize_ok)
          => \E op \in store_ops' \ store_ops :
               op.kind # "overwrite" /\ op.nc = op.base + 1]_vars

\* a batch of two updates was proposed on top of a staged config, while
\* pending and local hold lower ones
C11_Witness ==
  /\ last_update.updates = << TRUE, TRUE >>
  /\ local_nodes_config_ # NULL /\ pending_nodes_config_ # NULL
  /\ staged_nodes_config_ # NULL
  /\ \E op \in store_ops :
       op.base = staged_nodes_config_ /\ op.nc = staged_nodes_config_ + 1

\* C12: once an update's callback has run with OK and the config it proposed,
\* local comes to hold that config (no shutdown, nobody else writes).
C12_AcceptedReachesLocal ==
  \A v \in Versions :
    (last_cb.kind = "update" /\ last_cb.status = "OK" /\ last_cb.nc = v)
      ~> (local_nodes_config_ = v)

\* C13: once shutdown has been signaled, every update() and overwrite() call
\* is refused with SHUTDOWN, whatever the mode and the arguments: the callback
\* runs once with no config, nothing is posted, the store is not contacted.
C13_ShutdownRefusal ==
  [][(last_call' \in {"update", "overwrite"} /\ shutdown_signaled_)
       => Refused("SHUTDOWN")]_vars

\* after shutdown, an overwrite() on a manager without Tooling got SHUTDOWN
C13_Witness ==
  /\ shutdown_signaled_
  /\ last_call = "overwrite"
  /\ ~isTooling(mode_) /\ ~isProposer(mode_)
  /\ last_cb.status = "SHUTDOWN"
  /\ last_cb.nc = NULL

\* C14: once shutdown() has been called it returns (unless the process
\* aborted first), in every interleaving with init(), the InitRequest and the
\* fan-outs, the NCM thread, the workers and the store being scheduled fairly.
C14_ShutdownReturns == shutdown_signaled_ ~> (shutdownReturned \/ crashed)

\* C15: init(nc, true) returns true when initialized_ is posted.  From then
\* on, unless shutdown is signaled, local is non-empty and was published by a
\* completed fan-out, getLatestKnownConfig() is not below it, and every
\* worker's hook has run for the config in local or a later one.  When the
\* InitRequest found the pipeline empty (a cold start), the step that posts
\* initialized_ puts nc itself into local, and local never falls below it.
C15_ColdStart ==
  [][/\ (init_called' /\ initialized_' /\ ~shutdown_signaled_')
          => /\ local_nodes_config_' # NULL
             /\ publish_count'[local_nodes_config_'] = 1
             /\ getLatestKnownConfig(local_nodes_config_',
                                     pending_nodes_config_',
                                     staged_nodes_config_')
                  >= local_nodes_config_'
             /\ \A w \in Workers :
                  /\ worker_config'[w] # NULL
                  /\ worker_config'[w] >= local_nodes_config_'
             /\ cold_init' # NULL
                  => /\ local_nodes_config_' >= cold_init'
                     /\ publish_count'[cold_init'] = 1
     /\ (~initialized_ /\ initialized_')
          => /\ local_nodes_config_' # NULL
             /\ \A w \in Workers : worker_config'[w] = local_nodes_config_'
             /\ cold_init # NULL => local_nodes_config_' = cold_init
     /\ initialized_ => initialized_']_vars

\* init(1, true) has returned true on a cold start: local holds version 1
\* and every worker's hook has run for it
C15_Witness ==
  /\ init_called /\ initialized_ /\ ~shutdown_signaled_
  /\ cold_init = MaxInitVersion
  /\ local_nodes_config_ = cold_init
  /\ \A w \in Workers : worker_config[w] = cold_init
  /\ pending_nodes_config_ = NULL

\* C16: whichever of local, pending and staged are present have strictly
\* increasing versions in that order; in particular staged never holds a
\* version at or below local's.
C16_PipelineOrdering ==
  /\ (local_nodes_config_ # NULL /\ pending_nodes_config_ # NULL)
       => local_nodes_config_ < pending_nodes_config_
  /\ (pending_nodes_config_ # NULL /\ staged_nodes_config_ # NULL)
       => pending_nodes_config_ < staged_nodes_config_
  /\ (local_nodes_config_ # NULL /\ staged_nodes_config_ # NULL)
       => local_nodes_config_ < staged_nodes_config_

\* local, pending and staged all hold a config, and a config at or below
\* local's version has been delivered since
C16_Witness ==
  /\ local_nodes_config_ # NULL
  /\ pending_nodes_config_ # NULL
  /\ staged_nodes_config_ # NULL
  /\ last_delivery.version # NULL
  /\ last_delivery.version <= local_nodes_config_

\* C17: as long as a ProcessingFinishedRequest(v) waits for the NCM thread,
\* and so when it executes, pending holds exactly version v and local is
\* empty or strictly below v; there is never more than one such request.
C17_FanoutCompletionChecks ==
  \A r \in BagToSet(ncm_requests) :
    r.type = "ProcessingFinished" =>
      /\ pending_nodes_config_ # NULL
      /\ pending_nodes_config_ = r.nc
      /\ local_nodes_config_ = NULL \/ local_nodes_config_ < r.nc
      /\ CopiesIn(r, ncm_requests) = 1

\* a fan-out completed and its request is queued, after which a newer config
\* was staged and shutdown was signaled
C17_Witness ==
  /\ \E r \in BagToSet(ncm_requests) :
       r.type = "ProcessingFinished" /\ r.nc = pending_nodes_config_
  /\ local_nodes_config_ # NULL
  /\ staged_nodes_config_ # NULL
  /\ shutdown_signaled_

\* C18: whenever the store answers an update's compare-and-swap with
\* VERSION_MISMATCH, a stored version and its blob, the stored version is
\* strictly above the version that update proposed.
C18_CasLossStrictlyAbove ==
  [][\A op \in store_ops \ store_ops' :
       (/\ op.kind # "overwrite"
        /\ last_cb'.resp.status = "VERSION_MISMATCH"
        /\ last_cb'.resp.stored_version # EMPTY_VERSION
        /\ last_cb'.resp.stored_data # NoBlob)
         => last_cb'.resp.stored_version > op.nc]_vars

\* the fan-out of version v is in flight: a worker has yet to run its task,
\* or its ProcessingFinishedRequest waits for the NCM thread
InFlight(v) ==
  \/ \E f \in futures : f.nc = v /\ f.waiting # {}
  \/ BagIn(ProcessingFinishedRequest(v), ncm_requests)

\* C19, as stated: in every reachable state, also after shutdown has been
\* signaled, a non-empty pending has its fan-out in flight.
C19_PendingInFlight ==
  pending_nodes_config_ # NULL => InFlight(pending_nodes_config_)

\* C19, amended: as long as shutdown has not been signaled, a non-empty
\* pending has its fan-out in flight; a pending with nothing in flight is
\* one whose completion was dropped after shutdown was signaled, every worker
\* having run its hook for it.
C19_PendingInFlightUnlessShutdown ==
  (pending_nodes_config_ # NULL /\ ~InFlight(pending_nodes_config_))
    => /\ shutdown_signaled_
       /\ \A w \in Workers : worker_config[w] = pending_nodes_config_

\* shutdown was signaled during a fan-out: every worker has run its task, the
\* completion was dropped and pending stays
C19_Witness ==
  /\ shutdown_signaled_ /\ shutdown_completed_
  /\ pending_nodes_config_ # NULL
  /\ ~InFlight(pending_nodes_config_)
  /\ local_nodes_config_ # NULL

\* C20: when an element of the batch is rejected by applyUpdate, or the new
\* config serializes to an empty blob, onUpdateRequest runs the callback once
\* with the error and no config, does not call the store's updateConfig and
\* leaves staged, pending and local as they are; the store is called only for
\* a batch all of whose elements apply.
C20_BatchAtomic ==
  [][/\ (\/ \E i \in 1..Len(last_update'.updates) : ~last_update'.updates[i]
         \/ ~last_update'.serialize_ok)
          => /\ last_cb'.status = "err"
             /\ last_cb'.nc = NULL
             /\ last_cb'.id \in CallIds
             /\ cb_count' = [cb_count EXCEPT ![last_cb'.id] = @ + 1]
             /\ UNCHANGED << store_ops, store_version, staged_nodes_config_,
                             pending_nodes_config_, local_nodes_config_,
                             worker_queue, futures >>
     /\ last_cb'.status = "err"
          => \/ \E i \in 1..Len(last_update'.updates) : ~last_update'.updates[i]
             \/ ~last_update'.serialize_ok]_vars

\* a batch whose first update applies and whose second is rejected has
\* failed, on a manager whose pipeline holds configs
C20_Witness ==
  /\ last_update.updates = << TRUE, FALSE >>
  /\ last_cb.status = "err"
  /\ local_nodes_config_ # NULL
  /\ pending_nodes_config_ # NULL


\* C21 -- Consistent fetch only at startup on storage members: every read a
\* step hands to the store (the heartbeat's readFromStore) is a consistent
\* read if and only if the mode has StorageMember and local is still empty
\* when the heartbeat runs; so no consistent read is requested once local
\* holds a config, and none at all without StorageMember.
C21_ConsistentFetchOnlyAtStartup ==
  [][\A consistent \in BOOLEAN :
       CopiesIn(consistent, store_reads') > CopiesIn(consistent, store_reads)
         => (consistent <=> (kIsStorageMember \subseteq mode_
                               /\ local_nodes_config_ = NULL))]_vars

\* a storage member whose local is set has asked for a read, and not a
\* consistent one
C21_Witness ==
  /\ isStorageMember(mode_)
  /\ local_nodes_config_ # NULL
  /\ BagIn(FALSE, store_reads)
  /\ ~BagIn(TRUE, store_reads)


\* the UpdateRequests of advanceIntermediaryShardStates this step posted
AdvancePosted ==
  {id \in CallIds :
     CopiesIn(UpdateRequest(id, "advance"), ncm_requests')
       > CopiesIn(UpdateRequest(id, "advance"), ncm_requests)}

\* what a step may do for the intermediary-state advancement
AdvanceStep ==
  \* every batch the tracker gives is proposed through update(), and nothing else is
  /\ Cardinality(AdvancePosted) = last_extract'
  \* only on a heartbeat or a newly staged config, by a Proposer not shut down
  /\ AdvancePosted # {} =>
       /\ isProposer(mode_) /\ ~shutdown_signaled_
       /\ tracker_' # NULL
       /\ tracker_' # tracker_ \/ store_reads' # store_reads
       /\ AdvancePosted = next_call .. (next_call' - 1)
       /\ last_cb' = NoCallback
  \* the proposal is the next version after the latest known one
  /\ \A op \in store_ops' \ store_ops :
       op.kind = "advance" =>
         /\ op.base = getLatestKnownConfig(local_nodes_config_,
                        pending_nodes_config_, staged_nodes_config_)
         /\ op.nc = op.base + 1
  \* accepted, it is the store's config and goes to the pipeline
  /\ last_cb'.kind = "advance" /\ last_cb'.status = "OK" =>
       /\ store_version' = last_cb'.nc
       /\ shutdown_signaled_
            \/ CopiesIn(NewConfigRequest(last_cb'.nc), ncm_requests')
                 > CopiesIn(NewConfigRequest(last_cb'.nc), ncm_requests)
  \* failed, it leaves the pipeline alone and posts nothing
  /\ last_cb'.kind = "advance"
       /\ last_cb'.status \notin {"OK", "VERSION_MISMATCH"} =>
       /\ UNCHANGED << staged_nodes_config_, pending_nodes_config_,
                       local_nodes_config_, worker_queue, futures, tracker_,
                       fanout_count, publish_count >>
       /\ \A r \in BagToSet(ncm_requests') :
            CopiesIn(r, ncm_requests') <= CopiesIn(r, ncm_requests)

UpdateUnderWay(id) ==
  \/ BagIn(UpdateRequest(id, "update"), ncm_requests)
  \/ \E op \in store_ops : op.id = id /\ op.kind = "update"

\* C23 -- Cancellation by shutdown: an update() accepted before shutdown is
\* signaled, whose UpdateRequest or whose store callback runs after the
\* signal, still runs and its caller's callback is still invoked; and what
\* runs after the signal forwards no config: it posts nothing to the NCM
\* thread and leaves staged, pending and local as they are.
C23_CancelledByShutdown ==
  /\ [][shutdown_signaled_
          /\ (last_update' # NoUpdate \/ last_cb'.kind = "update")
        => /\ UNCHANGED << staged_nodes_config_, pending_nodes_config_,
                           local_nodes_config_, worker_queue, futures,
                           fanout_count, publish_count >>
           /\ \A r \in BagToSet(ncm_requests') :
                CopiesIn(r, ncm_requests') <= CopiesIn(r, ncm_requests)]_vars
  /\ \A id \in CallIds :
       (shutdown_signaled_ /\ UpdateUnderWay(id)) ~> cb_count[id] = 1


\* C24 (as stated) -- Quiescence after shutdown: once shutdown has been
\* signaled, local never changes again, staged is never overwritten and no
\* new fan-out to the workers is started.
C24_QuiescentAfterShutdown ==
  [][shutdown_signaled_
       => /\ local_nodes_config_' = local_nodes_config_
          /\ staged_nodes_config_' # staged_nodes_config_
               => staged_nodes_config_' = NULL
          /\ fanout_count' = fanout_count]_vars

\* C24 -- Quiescence after shutdown, but for a ProcessingFinishedRequest
\* posted before the signal: once shutdown has been signaled, staged is never
\* overwritten by another config and no ProcessingFinishedRequest is posted;
\* local changes, staged is emptied and a fan-out starts only in the step in
\* which a ProcessingFinishedRequest that was already queued executes, which
\* moves pending into local and hands what is staged to the workers.
C24_QuiescentButForQueuedFinish ==
  [][shutdown_signaled_
       => /\ staged_nodes_config_' # staged_nodes_config_
               => staged_nodes_config_' = NULL
          /\ \A r \in BagToSet(ncm_requests') :
               r.type = "ProcessingFinished"
                 => CopiesIn(r, ncm_requests') <= CopiesIn(r, ncm_requests)
          /\ (local_nodes_config_' # local_nodes_config_
                \/ staged_nodes_config_' # staged_nodes_config_
                \/ fanout_count' # fanout_count)
               => /\ \E r \in Queued("ProcessingFinished") :
                       ncm_requests' = Take(ncm_requests, r)
                  /\ pending_nodes_config_ # NULL
                  /\ local_nodes_config_' = pending_nodes_config_
                  /\ last_publish' = pending_nodes_config_
                  /\ pending_nodes_config_' = staged_nodes_config_
                  /\ staged_nodes_config_' = NULL]_vars

\* after the shutdown signal a ProcessingFinishedRequest has just moved
\* pending into local and started the fan-out of the config that was staged
C24_Witness ==
  /\ shutdown_signaled_
  /\ last_publish # NULL
  /\ local_nodes_config_ = last_publish
  /\ pending_nodes_config_ # NULL
  /\ \E f \in futures : f.nc = pending_nodes_config_ /\ f.waiting = Workers


\* what a step may do to the completion of the update() calls
CompletionStep ==
  \* a call either posts its UpdateRequest or is refused through its callback
  /\ last_call' = "update" =>
       /\ next_call' = next_call + 1
       /\ BagIn(UpdateRequest(next_call, "update"), ncm_requests')
            <=> last_cb' = NoCallback
       /\ last_cb' # NoCallback =>
            last_cb'.id = next_call /\ cb_count'[next_call] = 1
  \* one updateConfig at most: it takes the call's only UpdateRequest
  /\ \A op \in store_ops' \ store_ops :
       op.kind = "update" =>
         /\ CopiesIn(UpdateRequest(op.id, "update"), ncm_requests) = 1
         /\ ~BagIn(UpdateRequest(op.id, "update"), ncm_requests')
         /\ cb_count[op.id] = 0
         /\ \A other \in store_ops' : other.id = op.id => other = op
  \* the callback ends the call: no retry
  /\ \A id \in CallIds :
       cb_count'[id] > cb_count[id] =>
         /\ cb_count[id] = 0
         /\ last_cb'.id = id
         /\ last_cb'.kind = "update" => UpdateUnderWay(id) \/ last_call' = "update"
         /\ ~UpdateUnderWay(id)'

\* C25 -- Exactly-once completion: every update() call invokes the caller's
\* callback at most once on every path, and exactly once once its
\* UpdateRequest has executed and the store has answered; each call issues at
\* most one updateConfig to the store and is not retried.
C25_ExactlyOnceCompletion ==
  /\ [](\A id \in CallIds : cb_count[id] <= 1)
  /\ [][CompletionStep]_vars
  /\ \A id \in CallIds : UpdateUnderWay(id) ~> cb_count[id] = 1


\* every worker has completed its fan-out task for version v: a fan-out of v
\* was started, no worker still has the task queued, no fan-out of v is in
\* flight, and no worker's hook last ran for an older config
WorkersCompleted(v) ==
  /\ fanout_count[v] >= 1
  /\ \A f \in futures : f.nc # v
  /\ \A w \in Workers :
       /\ worker_config[w] # NULL /\ worker_config[w] >= v
       /\ \A i \in 1..Len(worker_queue[w]) : worker_queue[w][i] # v

\* C26 -- Local never runs ahead of the workers: in every reachable state in
\* which local holds version v, every worker has completed its fan-out task
\* (its hook) for v; and local is set to v only in a step before which the
\* hook of every worker last ran for v.
C26_LocalBehindWorkers ==
  /\ [](local_nodes_config_ # NULL => WorkersCompleted(local_nodes_config_))
  /\ [][local_nodes_config_' # local_nodes_config_
          => /\ local_nodes_config_' # NULL
             /\ WorkersCompleted(local_nodes_config_')
             /\ \A w \in Workers : worker_config[w] = local_nodes_config_']_vars

\* onProcessingFinished has just set local, and the hook of every worker last
\* ran for that config
C26_Witness ==
  /\ local_nodes_config_ # NULL
  /\ last_publish = local_nodes_config_
  /\ publish_count[local_nodes_config_] = 1
  /\ \A w \in Workers : worker_config[w] = local_nodes_config_

====
